---- MODULE Spec2Model ----
(***************************************************************************)
(* pcb-maker: the pipeline execution engine (pipeline/execution.py), the   *)
(* stage registry and stage implementations (pipeline/stages/__init__.py), *)
(* the configuration loader (pipeline/config.py) and the KiCad job         *)
(* descriptor parser (kicad_job.py).                                       *)
(*                                                                         *)
(* Python values are records [type, arg, map]:                             *)
(*   type  the Python type ("None", "str", "bool", "int", "float", "list", *)
(*         "dict", "Path", "KiCadJob", "LayerFile"), or the exception a    *)
(*         read or a parse raised instead of giving a value,               *)
(*   arg   the text of a string as a sequence of tokens (characters for a  *)
(*         stage identifier or a function tag, path segments for a path),  *)
(*         the numeral of a number, the items of a list,                   *)
(*   map   the key -> value mapping of a dict (or the fields of an object).*)
(***************************************************************************)
EXTENDS Integers, Sequences, FiniteSets, TLC

VARIABLES
    cfg,          \* the PipelineConfig object handed to execute_pipeline
    cfg0,         \* ghost: the configuration as the loader built it
    pc,           \* "idle" | "loop" | "returned" | "raised"
    context,      \* execute_pipeline's local `context`
    pipeline_dir, \* execute_pipeline's local `pipeline_dir`
    prev_output,  \* execute_pipeline's local `prev_output`
    pos,          \* index of the stage the for loop handles next (1-based)
    error,        \* the exception that ended the run ("" when none)
    trace,        \* ghost: one record per impl.run invocation of this run
    reached,      \* ghost: indices of stages some run's loop body has handled
    ran,          \* ghost: TRUE once an execution has ended (return or raise)
    document,     \* what yaml.safe_load makes of the text handed to the loader
    loaded,       \* the outcome of load_pipeline / load_pipeline_from_string
    inspected,    \* the namespace and action read from a loaded stage
    descriptor,   \* what json.loads makes of the job file handed to load_kicad_job
    parsed,       \* the outcome of load_kicad_job
    selected      \* what copper_layers() and outline_layer() gave for the job

\* The variables of the loaders, which execute_pipeline leaves alone.
loadvars == <<document, loaded, inspected, descriptor, parsed, selected>>

vars ==
    <<cfg, cfg0, pc, context, pipeline_dir, prev_output, pos, error, trace, reached, ran,
      document, loaded, inspected, descriptor, parsed, selected>>

(***************************************************************************)
(* Bounds of the model.                                                    *)
(***************************************************************************)
MaxStages == 3

MaxShort == 2

MaxLayers == 3

MaxTokens == 3

(***************************************************************************)
(* Python values.                                                          *)
(***************************************************************************)
EmptyMap == <<>>

NoneVal == [type |-> "None", arg |-> <<>>, map |-> EmptyMap]

Str(tokens) == [type |-> "str", arg |-> tokens, map |-> EmptyMap]

Bool(b) == [type |-> "bool", arg |-> <<IF b THEN "True" ELSE "False">>, map |-> EmptyMap]

List(items) == [type |-> "list", arg |-> items, map |-> EmptyMap]

Dict(m) == [type |-> "dict", arg |-> <<>>, map |-> m]

PathVal(segs) == [type |-> "Path", arg |-> segs, map |-> EmptyMap]

\* What a read or a parse raises instead of giving a value.
Failure(exc) == [type |-> exc, arg |-> <<>>, map |-> EmptyMap]

\* Python truth value: None, "", False, 0, 0.0, [] and {} are falsy; objects without
\* __bool__/__len__ (Path, KiCadJob) are truthy.
Truthy(v) ==
    CASE v.type = "None" -> FALSE
      [] v.type = "str"  -> v.arg # <<>>
      [] v.type = "bool" -> v.arg = <<"True">>
      [] v.type = "list" -> v.arg # <<>>
      [] v.type = "dict" -> DOMAIN v.map # {}
      [] v.type = "float" -> v.arg # <<"0.0">>
      [] v.type = "int" -> v.arg # <<"0">>
      [] OTHER -> TRUE

\* dict.get(key) and dict.get(key, default)
GetD(m, k, d) == IF k \in DOMAIN m THEN m[k] ELSE d

Get(m, k) == GetD(m, k, NoneVal)

\* d[key] = value
Put(m, k, v) == (k :> v) @@ m

\* {**a, **b}: the keys of b override those of a
Merge(a, b) == b @@ a

(***************************************************************************)
(* pathlib, on paths as sequences of segments ("/" first when absolute).   *)
(***************************************************************************)
NotDot(seg) == seg # "."

\* Path(text): "." segments are dropped
PathOf(segs) == SelectSeq(segs, NotDot)

\* str(path): the empty path prints as "."
StrOfPath(p) == IF p = <<>> THEN <<".">> ELSE p

is_absolute(p) == p # <<>> /\ Head(p) = "/"

\* a / b: an absolute right operand replaces the left one
JoinPath(a, b) == IF is_absolute(b) THEN b ELSE a \o b

\* path.parent
Parent(p) == IF Len(p) <= 1 THEN (IF is_absolute(p) THEN p ELSE <<>>) ELSE SubSeq(p, 1, Len(p) - 1)

\* the working directory of the process
Cwd == <<"/", "cwd">>

\* path.resolve() on a path without ".." or links
resolve(p) == IF is_absolute(p) THEN p ELSE Cwd \o p

(***************************************************************************)
(* Stage identifiers, as sequences of characters.                          *)
(***************************************************************************)
LOADER_KICAD ==
    <<"l", "o", "a", "d", "e", "r", ".", "k", "i", "c", "a", "d">>

LASER_ISOLATION ==
    <<"l", "a", "s", "e", "r", ".", "i", "s", "o", "l", "a", "t", "i", "o", "n">>

LASER_OUTLINE ==
    <<"l", "a", "s", "e", "r", ".", "o", "u", "t", "l", "i", "n", "e">>

LASER_RASTER ==
    <<"l", "a", "s", "e", "r", ".", "r", "a", "s", "t", "e", "r">>

MILLING_ISOLATION ==
    <<"m", "i", "l", "l", "i", "n", "g", ".", "i", "s", "o", "l", "a", "t", "i", "o", "n">>

MILLING_BOARD_CUTOUT ==
    <<"m", "i", "l", "l", "i", "n", "g", ".", "b", "o", "a", "r", "d", "_", "c", "u", "t", "o", "u", "t">>

OUTPUT_LASER_GCODE ==
    <<"o", "u", "t", "p", "u", "t", ".", "l", "a", "s", "e", "r", "_", "g", "c", "o", "d", "e">>

OUTPUT_CNC_GCODE ==
    <<"o", "u", "t", "p", "u", "t", ".", "c", "n", "c", "_", "g", "c", "o", "d", "e">>

BOGUS_STAGE ==
    <<"b", "o", "g", "u", "s", ".", "s", "t", "a", "g", "e">>

(***************************************************************************)
(* Letter case of characters: str.lower() and str.upper().                 *)
(***************************************************************************)
LowerCase ==
    <<"a", "b", "c", "d", "e", "f", "g", "h", "i", "j", "k", "l", "m",
      "n", "o", "p", "q", "r", "s", "t", "u", "v", "w", "x", "y", "z">>

UpperCase ==
    <<"A", "B", "C", "D", "E", "F", "G", "H", "I", "J", "K", "L", "M",
      "N", "O", "P", "Q", "R", "S", "T", "U", "V", "W", "X", "Y", "Z">>

lower_char(c) ==
    IF \E i \in DOMAIN UpperCase : UpperCase[i] = c
    THEN LowerCase[CHOOSE i \in DOMAIN UpperCase : UpperCase[i] = c]
    ELSE c

upper_char(c) ==
    IF \E i \in DOMAIN LowerCase : LowerCase[i] = c
    THEN UpperCase[CHOOSE i \in DOMAIN LowerCase : LowerCase[i] = c]
    ELSE c

lower(text) == [i \in DOMAIN text |-> lower_char(text[i])]

(***************************************************************************)
(* The stage registry and the factory.                                     *)
(***************************************************************************)
STAGE_CLASS_REGISTRY ==
    (LOADER_KICAD :> "LoaderKiCadStage")
    @@ (LASER_ISOLATION :> "LaserIsolationStage")
    @@ (LASER_OUTLINE :> "LaserOutlineStage")
    @@ (LASER_RASTER :> "LaserRasterStage")
    @@ (MILLING_ISOLATION :> "MillingIsolationStage")
    @@ (MILLING_BOARD_CUTOUT :> "MillingBoardCutoutStage")
    @@ (OUTPUT_LASER_GCODE :> "OutputLaserGcodeStage")
    @@ (OUTPUT_CNC_GCODE :> "OutputCncGcodeStage")

\* Mutant: the identifier is lower-cased before the lookup,
\* STAGE_CLASS_REGISTRY.get(stage.uses.lower()).
create_stage_impl_lower(stage) ==
    IF lower(stage.uses.arg) \in DOMAIN STAGE_CLASS_REGISTRY
    THEN [raised |-> "", cls |-> STAGE_CLASS_REGISTRY[lower(stage.uses.arg)]]
    ELSE [raised |-> "PipelineError", cls |-> ""]

\* Mutant: an unknown identifier falls back to a default class,
\* STAGE_CLASS_REGISTRY.get(stage.uses, LaserRasterStage).
create_stage_impl_default(stage) ==
    [raised |-> "",
     cls |-> IF stage.uses.arg \in DOMAIN STAGE_CLASS_REGISTRY
             THEN STAGE_CLASS_REGISTRY[stage.uses.arg]
             ELSE "LaserRasterStage"]

\* The class bound to stage.uses, or the raised exception.
create_stage_impl(stage) ==
    IF stage.uses.arg \in DOMAIN STAGE_CLASS_REGISTRY
    THEN [raised |-> "", cls |-> STAGE_CLASS_REGISTRY[stage.uses.arg]]
    ELSE [raised |-> "PipelineError", cls |-> ""]

(***************************************************************************)
(* The configuration loader: one stage entry of the document -> Stage.     *)
(***************************************************************************)
NoStage == [name |-> NoneVal, uses |-> NoneVal, raw |-> EmptyMap, with_args |-> EmptyMap]

\* Mutant: the type of `with` is not examined.
_coerce_stage_any_with(obj) ==
    LET name == Get(obj.map, "name")
        uses == Get(obj.map, "uses")
        with == Get(obj.map, "with")
    IN  IF obj.type # "dict"
        THEN [raised |-> "PipelineError", stage |-> NoStage]
        ELSE IF ~Truthy(name) \/ name.type # "str"
        THEN [raised |-> "PipelineError", stage |-> NoStage]
        ELSE IF ~Truthy(uses) \/ uses.type # "str"
        THEN [raised |-> "PipelineError", stage |-> NoStage]
        ELSE [raised |-> "",
              stage |-> [name |-> name, uses |-> uses, raw |-> obj.map,
                         with_args |-> IF with.type = "dict" THEN with.map ELSE EmptyMap]]

_coerce_stage(obj) ==
    LET name == Get(obj.map, "name")
        uses == Get(obj.map, "uses")
        with == Get(obj.map, "with")
    IN  IF obj.type # "dict"
        THEN [raised |-> "PipelineError", stage |-> NoStage]
        ELSE IF ~Truthy(name) \/ name.type # "str"
        THEN [raised |-> "PipelineError", stage |-> NoStage]
        ELSE IF ~Truthy(uses) \/ uses.type # "str"
        THEN [raised |-> "PipelineError", stage |-> NoStage]
        ELSE IF with.type \notin {"None", "dict"}
        THEN [raised |-> "PipelineError", stage |-> NoStage]
        ELSE [raised |-> "",
              stage |-> [name |-> name, uses |-> uses, raw |-> obj.map,
                         with_args |-> IF with.type = "None" THEN EmptyMap ELSE with.map]]

(***************************************************************************)
(* Stage.namespace and Stage.action, on uses as a sequence of characters.  *)
(***************************************************************************)
\* "." in text
HasDot(text) == \E n \in 1..Len(text) : text[n] = "."

\* text.split(".")[0], text.split(".", 1)[1] and text.split(".")[-1] cut at
\* the first and at the last ".".
FirstDot(text) ==
    CHOOSE n \in 1..Len(text) : text[n] = "." /\ \A m \in 1..(n - 1) : text[m] # "."

LastDot(text) ==
    CHOOSE n \in 1..Len(text) : text[n] = "." /\ \A m \in (n + 1)..Len(text) : text[m] # "."

namespace(stage) ==
    LET uses == stage.uses.arg
    IN  IF HasDot(uses) THEN SubSeq(uses, 1, FirstDot(uses) - 1) ELSE uses

\* Mutant: the last component, uses.split(".")[-1].
action_last_component(stage) ==
    LET uses == stage.uses.arg
    IN  IF HasDot(uses) THEN SubSeq(uses, LastDot(uses) + 1, Len(uses)) ELSE <<>>

action(stage) ==
    LET uses == stage.uses.arg
    IN  IF HasDot(uses) THEN SubSeq(uses, FirstDot(uses) + 1, Len(uses)) ELSE <<>>

(***************************************************************************)
(* Text operations of kicad_job.py, on strings as sequences of characters. *)
(***************************************************************************)
Whitespace == {" ", "\t", "\n"}

Digits == <<"0", "1", "2", "3", "4", "5", "6", "7", "8", "9">>

\* The text between the first and the last of the positions `inked`.
between(text, inked) ==
    IF inked = {}
    THEN <<>>
    ELSE SubSeq(text, CHOOSE n \in inked : \A m \in inked : n <= m,
                      CHOOSE n \in inked : \A m \in inked : n >= m)

\* text.strip()
strip(text) == between(text, {n \in 1..Len(text) : text[n] \notin Whitespace})

\* text.split(sep)
RECURSIVE split(_, _)
split(text, sep) ==
    IF \A n \in 1..Len(text) : text[n] # sep
    THEN <<text>>
    ELSE LET cut == CHOOSE n \in 1..Len(text) :
                      text[n] = sep /\ \A m \in 1..(n - 1) : text[m] # sep
         IN  <<SubSeq(text, 1, cut - 1)>> \o split(SubSeq(text, cut + 1, Len(text)), sep)

\* text.upper()
upper(text) == [i \in DOMAIN text |-> upper_char(text[i])]

\* text.isdigit()
isdigit(text) ==
    text # <<>> /\ \A n \in 1..Len(text) : \E d \in DOMAIN Digits : Digits[d] = text[n]

\* "".join(chars)
RECURSIVE join(_)
join(chars) == IF chars = <<>> THEN "" ELSE Head(chars) \o join(Tail(chars))

RECURSIVE without_leading_zeros(_)
without_leading_zeros(text) ==
    IF Len(text) > 1 /\ Head(text) = "0" THEN without_leading_zeros(Tail(text)) ELSE text

IntVal(text) == [type |-> "int", arg |-> <<text>>, map |-> EmptyMap]

Float(text) == [type |-> "float", arg |-> <<text>>, map |-> EmptyMap]

\* int(text) for a text of digits: the number, written without leading zeros
int(text) == IntVal(join(without_leading_zeros(text)))

\* The texts float() reads as a number (those that occur in the descriptors).
NumericTexts == {"12.5", "100.2", "107.2"}

\* float(x): a float as it is, an int or a bool as a float, a numeric text as
\* its number; ValueError for another text, TypeError for any other value.
float(x) ==
    CASE x.type = "float" -> [raised |-> "", value |-> x]
      [] x.type = "int" -> [raised |-> "", value |-> Float(x.arg[1] \o ".0")]
      [] x.type = "bool" ->
           [raised |-> "", value |-> Float(IF x.arg = <<"True">> THEN "1.0" ELSE "0.0")]
      [] x.type = "str" ->
           IF Len(x.arg) = 1 /\ x.arg[1] \in NumericTexts
           THEN [raised |-> "", value |-> Float(x.arg[1])]
           ELSE [raised |-> "ValueError", value |-> NoneVal]
      [] OTHER -> [raised |-> "TypeError", value |-> NoneVal]

(***************************************************************************)
(* kicad_job.py: the job descriptor parser.                                *)
(***************************************************************************)
COPPER == <<"c", "o", "p", "p", "e", "r">>

PROFILE == <<"p", "r", "o", "f", "i", "l", "e">>

TOP == <<"T", "o", "p">>

BOT == <<"B", "o", "t">>

NotEmpty(text) == text # <<>>

\* p.upper().startswith("L") and p[1:].isdigit()
IsLayerToken(p) == Head(upper(p)) = "L" /\ isdigit(Tail(p))

\* elif p in ("Top", "Bot")
IsSideToken(p) == ~IsLayerToken(p) /\ p \in {TOP, BOT}

\* The last element of a sequence: of those assigned in turn by a loop, the
\* one that stays.
Last(seq) == seq[Len(seq)]

\* [p.strip() for p in pieces]
strip_all(pieces) == [i \in 1..Len(pieces) |-> strip(pieces[i])]

\* parts = [p.strip() for p in func_str.split(",") if p.strip()]
parts_of(func_str) == SelectSeq(strip_all(split(func_str, ",")), NotEmpty)

\* info = {"parts": parts}
info_of(parts) == ("parts" :> List([i \in 1..Len(parts) |-> Str(parts[i])]))

\* The loop over parts[1:] of a copper tag: the last layer token gives
\* layer_index, the last side token gives side.
copper_info(rest) ==
    (IF \E n \in 1..Len(rest) : IsLayerToken(rest[n])
     THEN ("layer_index" :> int(Tail(Last(SelectSeq(rest, IsLayerToken)))))
     ELSE EmptyMap)
    @@ (IF \E n \in 1..Len(rest) : IsSideToken(rest[n])
        THEN ("side" :> Str(Last(SelectSeq(rest, IsSideToken))))
        ELSE EmptyMap)

\* Mutant: a tag is a copper tag when any of its tokens is "copper".
classify_any_token(parts) ==
    IF parts = <<>>
    THEN info_of(parts)
    ELSE IF \E n \in 1..Len(parts) : lower(parts[n]) = COPPER
    THEN info_of(parts) @@ copper_info(Tail(parts)) @@ ("type" :> Str(COPPER))
    ELSE IF lower(parts[1]) = PROFILE
    THEN info_of(parts) @@ ("type" :> Str(PROFILE))
    ELSE info_of(parts) @@ ("type" :> Str(lower(parts[1])))

\* Lines 100-115 of parse_file_function, on the parts of the tag.
classify(parts) ==
    IF parts = <<>>
    THEN info_of(parts)
    ELSE IF lower(parts[1]) = COPPER
    THEN info_of(parts) @@ copper_info(Tail(parts)) @@ ("type" :> Str(COPPER))
    ELSE IF lower(parts[1]) = PROFILE
    THEN info_of(parts) @@ ("type" :> Str(PROFILE))
    ELSE info_of(parts) @@ ("type" :> Str(lower(parts[1])))

parse_file_function(func_str) == classify(parts_of(func_str))

\* LayerFile(path=..., functions=..., ...)
LayerFile(path, functions, polarity, layer_index, side, is_copper, is_profile) ==
    [type |-> "LayerFile", arg |-> <<>>,
     map |-> ("path" :> path) @@ ("functions" :> functions) @@ ("polarity" :> polarity)
             @@ ("layer_index" :> layer_index) @@ ("side" :> side)
             @@ ("is_copper" :> Bool(is_copper)) @@ ("is_profile" :> Bool(is_profile))]

\* KiCadJob(source_path=..., ...)
KiCadJob(source_path, size_x, size_y, thickness, layer_number, design_rules, layers) ==
    [type |-> "KiCadJob", arg |-> source_path,
     map |-> ("board_size_x" :> size_x) @@ ("board_size_y" :> size_y)
             @@ ("board_thickness" :> thickness) @@ ("layer_number" :> layer_number)
             @@ ("design_rules" :> design_rules) @@ ("layers" :> layers)]

\* The entry of FilesAttributes is skipped by the loop.
Skipped(entry) ==
    \/ entry.type # "dict"
    \/ ~Truthy(Get(entry.map, "Path"))
    \/ ~Truthy(GetD(entry.map, "FileFunction", Str(<<>>)))

\* LayerFile(...) of an entry and its parsed tag.
layer_from(entry, info) ==
    LayerFile(entry.map["Path"],
              GetD(info, "parts", List(<<>>)),
              Get(entry.map, "FilePolarity"),
              Get(info, "layer_index"),
              Get(info, "side"),
              Get(info, "type") = Str(COPPER),
              Get(info, "type") = Str(PROFILE))

\* The body of the loop over FilesAttributes for an entry that is not skipped.
layer_of(entry) == layer_from(entry, parse_file_function(entry.map["FileFunction"].arg))

NotSkipped(entry) == ~Skipped(entry)

\* Mutant: the rule set is the last one of the list.
last_rule_set(design_rules_list) ==
    IF design_rules_list.type = "list" /\ Truthy(design_rules_list)
       /\ design_rules_list.arg[Len(design_rules_list.arg)].type = "dict"
    THEN design_rules_list.arg[Len(design_rules_list.arg)]
    ELSE Dict(EmptyMap)

\* Lines 137-142: the rule set kept of design_rules_list.
first_rule_set(design_rules_list) ==
    IF design_rules_list.type = "list" /\ Truthy(design_rules_list)
       /\ design_rules_list.arg[1].type = "dict"
    THEN design_rules_list.arg[1]
    ELSE Dict(EmptyMap)

\* [layer_of(e) for e in entries]
layers_from(entries) == List([i \in 1..Len(entries) |-> layer_of(entries[i])])

\* Lines 148-166: the layers built from the list files_attr.
layers_of(files_attr) == layers_from(SelectSeq(files_attr.arg, NotSkipped))

NoJob == [raised |-> "KiCadJobError", job |-> NoneVal]

\* Some entry the loop does not skip has a FileFunction without .split.
UnsplittableTag(files_attr) ==
    \E n \in 1..Len(files_attr.arg) :
      /\ ~Skipped(files_attr.arg[n])
      /\ files_attr.arg[n].map["FileFunction"].type # "str"

\* Lines 136-176, with the values lines 126-132 took from GeneralSpecs.
job_from(path, raw, general, board_size_x, board_size_y, files_attr) ==
    IF board_size_x.raised # "" \/ board_size_y.raised # ""
    THEN NoJob
    ELSE IF files_attr.type # "list"
    THEN NoJob
    ELSE IF UnsplittableTag(files_attr)
    THEN [raised |-> "AttributeError", job |-> NoneVal]
    ELSE [raised |-> "",
          job |-> KiCadJob(path, board_size_x.value, board_size_y.value,
                           Get(general.map, "BoardThickness"),
                           Get(general.map, "LayerNumber"),
                           first_rule_set(GetD(raw.map, "DesignRules", List(<<>>))),
                           layers_of(files_attr))]

\* Lines 126-130: general = raw.get("GeneralSpecs", {}), size = general.get("Size", {}).
sized_job(path, raw, general, size) ==
    IF raw.type # "dict" \/ general.type # "dict" \/ size.type # "dict"
    THEN NoJob
    ELSE job_from(path, raw, general,
                  float(GetD(size.map, "X", Float("0.0"))),
                  float(GetD(size.map, "Y", Float("0.0"))),
                  GetD(raw.map, "FilesAttributes", List(<<>>)))

\* load_kicad_job(path): `file` is what path.read_text and json.loads make
\* of the file, a value, or the OSError or JSONDecodeError they raise.
load_kicad_job(path, file) ==
    IF file.type \in {"OSError", "JSONDecodeError"}
    THEN NoJob
    ELSE sized_job(path, file,
                   GetD(file.map, "GeneralSpecs", Dict(EmptyMap)),
                   GetD(GetD(file.map, "GeneralSpecs", Dict(EmptyMap)).map, "Size",
                        Dict(EmptyMap)))

IsTrue(flag) == flag = Bool(TRUE)

\* A selection that keeps every layer, copper or not.
copper_layers_all(job) == List(job.map["layers"].arg)

\* KiCadJob.copper_layers()
copper_layers(job) ==
    List(SelectSeq(job.map["layers"].arg, LAMBDA l : IsTrue(l.map["is_copper"])))

\* KiCadJob.outline_layer()
outline_layer(job) ==
    LET layers == job.map["layers"].arg
    IN  IF \E n \in 1..Len(layers) : IsTrue(layers[n].map["is_profile"])
        THEN layers[CHOOSE n \in 1..Len(layers) :
                      /\ IsTrue(layers[n].map["is_profile"])
                      /\ \A m \in 1..(n - 1) : ~IsTrue(layers[m].map["is_profile"])]
        ELSE NoneVal

(***************************************************************************)
(* Job descriptors: what json.loads makes of a .gbrjob file.               *)
(***************************************************************************)
\* Tokens of FileFunction tags.
W_Copper == <<"C", "o", "p", "p", "e", "r">>

W_Profile == <<"P", "r", "o", "f", "i", "l", "e">>

W_Soldermask == <<"S", "o", "l", "d", "e", "r", "m", "a", "s", "k">>

W_L1 == <<"L", "1">>

W_L2 == <<"L", "2">>

W_Top == <<"T", "o", "p">>

W_Bot == <<"B", "o", "t">>

W_NP == <<"N", "P">>

\* ",".join(tokens)
RECURSIVE CommaJoin(_)
CommaJoin(tokens) ==
    IF Len(tokens) = 1 THEN tokens[1]
    ELSE tokens[1] \o <<",">> \o CommaJoin(Tail(tokens))

FileEntry(path, tag, polarity) ==
    Dict(("Path" :> Str(<<path>>)) @@ ("FileFunction" :> Str(tag))
         @@ ("FilePolarity" :> Str(<<polarity>>)))

\* The three layers of the repository's sample board.
F_Cu == FileEntry("board-F_Cu.gbr", CommaJoin(<<W_Copper, W_L1, W_Top>>), "Positive")

B_Cu == FileEntry("board-B_Cu.gbr", CommaJoin(<<W_Copper, W_L2, W_Bot>>), "Positive")

Edge_Cuts == FileEntry("board-Edge_Cuts.gbr", CommaJoin(<<W_Profile, W_NP>>), "Positive")

\* A second file tagged as a profile.
Margin == FileEntry("board-Margin.gbr", CommaJoin(<<upper(PROFILE), W_NP>>), "Positive")

BoardSpecs ==
    Dict(("Size" :> Dict(("X" :> Float("100.2")) @@ ("Y" :> Float("107.2"))))
         @@ ("LayerNumber" :> IntVal("2")) @@ ("BoardThickness" :> Float("1.6")))

BoardRules == Dict(("PadToPad" :> Float("0.2")) @@ ("Layers" :> Str(<<"Outer">>)))

\* A descriptor from its GeneralSpecs, DesignRules and FilesAttributes
\* (each a mapping with that key, or without it).
Descriptor(general, rules, files) ==
    Dict(("Header" :> Dict(("GenerationSoftware" :> Str(<<"KiCad">>))))
         @@ general @@ rules @@ files)

\* The sample board, with and without its outline layer.
BoardJob ==
    Descriptor(("GeneralSpecs" :> BoardSpecs), ("DesignRules" :> List(<<BoardRules>>)),
               ("FilesAttributes" :> List(<<F_Cu, B_Cu, Edge_Cuts>>)))

BoardJobNoOutline ==
    Descriptor(("GeneralSpecs" :> BoardSpecs), ("DesignRules" :> List(<<BoardRules>>)),
               ("FilesAttributes" :> List(<<F_Cu, B_Cu>>)))

\* What the file a loader.kicad stage reads may hold: the environment's
\* choice at the time of the read.
FileOutcomes == {BoardJob, BoardJobNoOutline, Failure("JSONDecodeError")}

(***************************************************************************)
(* Stage implementations: run(prev_output, ctx, log) on stage st.      *)
(* The result names the exception raised ("" when none), the value         *)
(* returned, the context after the call and the context keys assigned.     *)
(***************************************************************************)
Raise(exc, ctx) ==
    [raised |-> exc, ret |-> NoneVal, context |-> ctx, wrote |-> {}]

Return(value, ctx, key) ==
    [raised |-> "", ret |-> value, context |-> Put(ctx, key, value), wrote |-> {key}]

\* job = load_kicad_job(job_path); context['job'] = job; return job
loaded_job(outcome, ctx) ==
    IF outcome.raised # ""
    THEN Raise(outcome.raised, ctx)
    ELSE Return(outcome.job, ctx, "job")

LoaderKiCadStage_run(st, prev, ctx, file) ==
    LET params == Merge(st.raw, st.with_args)
        nested == GetD(params, "with", Dict(EmptyMap))
        folder1 == Get(params, "folder")
        job1 == Get(params, "job")
        folder == IF Truthy(folder1) THEN folder1 ELSE Get(nested.map, "folder")
        job_name == IF Truthy(job1) THEN job1 ELSE Get(nested.map, "job")
    IN  IF (~Truthy(folder1) \/ ~Truthy(job1)) /\ nested.type # "dict"
        THEN Raise("AttributeError", ctx)
        ELSE IF ~Truthy(job_name)
        THEN Raise("PipelineError", ctx)
        ELSE
          LET joined == IF Truthy(folder)
                        THEN JoinPath(PathOf(folder.arg), PathOf(job_name.arg))
                        ELSE PathOf(job_name.arg)
              dir == Get(st.raw, "__pipeline_dir__")
              job_path == IF ~is_absolute(joined) /\ Truthy(dir)
                          THEN resolve(JoinPath(PathOf(dir.arg), joined))
                          ELSE joined
          IN  loaded_job(load_kicad_job(job_path, file), ctx)

\* A stage that records the job as its source whether or not one is loaded.
LaserIsolationStage_always_job(st, prev, ctx, file) ==
    Return(Dict(("type" :> Str(<<"laser_isolation_paths">>))
                @@ ("source" :> Str(<<"job">>))
                @@ ("paths" :> List(<<>>))),
           ctx, "laser_isolation")

LaserIsolationStage_run(st, prev, ctx, file) ==
    LET job == Get(ctx, "job")
        result == Dict(("type" :> Str(<<"laser_isolation_paths">>))
                       @@ ("source" :> IF Truthy(job) THEN Str(<<"job">>) ELSE NoneVal)
                       @@ ("paths" :> List(<<>>)))
    IN  Return(result, ctx, "laser_isolation")

LaserOutlineStage_run(st, prev, ctx, file) ==
    LET job == Get(ctx, "job")
        layer == IF Truthy(job) /\ job.type = "KiCadJob" THEN outline_layer(job) ELSE NoneVal
        outline == IF Truthy(layer) THEN Get(layer.map, "path") ELSE NoneVal
    IN  Return(outline, ctx, "laser_outline")

LaserRasterStage_run(st, prev, ctx, file) ==
    Return(Dict(("type" :> Str(<<"laser_raster">>))
                @@ ("enabled" :> GetD(st.with_args, "enabled", Bool(FALSE)))),
           ctx, "laser_raster")

MillingIsolationStage_run(st, prev, ctx, file) ==
    Return(Dict(("type" :> Str(<<"milling_isolation">>))
                @@ ("tool_diameter" :> Get(st.with_args, "tool_diameter"))),
           ctx, "milling_isolation")

MillingBoardCutoutStage_run(st, prev, ctx, file) ==
    Return(Dict(("type" :> Str(<<"milling_board_cutout">>))
                @@ ("tabs" :> Get(st.with_args, "tabs"))),
           ctx, "milling_board_cutout")

\* Mutant: the laser emitter stores its text under the CNC emitter's key.
OutputLaserGcodeStage_wrong_key(st, prev, ctx, file) ==
    LET outfile == Get(st.with_args, "file")
        gcode == IF Truthy(outfile)
                 THEN Str(<<"; laser gcode placeholder for ">> \o outfile.arg)
                 ELSE Str(<<"; laser gcode placeholder">>)
    IN  Return(gcode, ctx, "cnc_gcode")

OutputLaserGcodeStage_run(st, prev, ctx, file) ==
    LET outfile == Get(st.with_args, "file")
        gcode == IF Truthy(outfile)
                 THEN Str(<<"; laser gcode placeholder for ">> \o outfile.arg)
                 ELSE Str(<<"; laser gcode placeholder">>)
    IN  Return(gcode, ctx, "laser_gcode")

OutputCncGcodeStage_run(st, prev, ctx, file) ==
    LET outfile == Get(st.with_args, "file")
        gcode == IF Truthy(outfile)
                 THEN Str(<<"; cnc gcode placeholder for ">> \o outfile.arg)
                 ELSE Str(<<"; cnc gcode placeholder">>)
    IN  Return(gcode, ctx, "cnc_gcode")

\* impl.run(prev_output, ctx, log): dispatch on the class of impl
run(cls, st, prev, ctx, file) ==
    CASE cls = "LoaderKiCadStage" -> LoaderKiCadStage_run(st, prev, ctx, file)
      [] cls = "LaserIsolationStage" -> LaserIsolationStage_run(st, prev, ctx, file)
      [] cls = "LaserOutlineStage" -> LaserOutlineStage_run(st, prev, ctx, file)
      [] cls = "LaserRasterStage" -> LaserRasterStage_run(st, prev, ctx, file)
      [] cls = "MillingIsolationStage" -> MillingIsolationStage_run(st, prev, ctx, file)
      [] cls = "MillingBoardCutoutStage" -> MillingBoardCutoutStage_run(st, prev, ctx, file)
      [] cls = "OutputLaserGcodeStage" -> OutputLaserGcodeStage_run(st, prev, ctx, file)
      [] cls = "OutputCncGcodeStage" -> OutputCncGcodeStage_run(st, prev, ctx, file)

(***************************************************************************)
(* The configuration loader: the document -> PipelineConfig.               *)
(***************************************************************************)
NoConfig == [version |-> NoneVal, stages |-> <<>>, source_path |-> NoneVal]

\* Mutant: the stages are collected last entry first.
_build_config_reversed(data, source_path) ==
    LET version == GetD(data.map, "version", Str(<<>>))
        stages_raw == Get(data.map, "stages")
        n == Len(stages_raw.arg)
        coerced == [i \in 1..n |-> _coerce_stage(stages_raw.arg[n + 1 - i])]
    IN  IF data.type # "dict"
        THEN [raised |-> "PipelineError", config |-> NoConfig]
        ELSE IF ~Truthy(version)
        THEN [raised |-> "PipelineError", config |-> NoConfig]
        ELSE IF stages_raw.type # "list" \/ ~Truthy(stages_raw)
        THEN [raised |-> "PipelineError", config |-> NoConfig]
        ELSE IF \E i \in DOMAIN coerced : coerced[i].raised # ""
        THEN [raised |-> "PipelineError", config |-> NoConfig]
        ELSE [raised |-> "",
              config |-> [version |-> version,
                          stages |-> [i \in DOMAIN coerced |-> coerced[i].stage],
                          source_path |-> source_path]]

_build_config(data, source_path) ==
    LET version == GetD(data.map, "version", Str(<<>>))
        stages_raw == Get(data.map, "stages")
        coerced == [i \in 1..Len(stages_raw.arg) |-> _coerce_stage(stages_raw.arg[i])]
    IN  IF data.type # "dict"
        THEN [raised |-> "PipelineError", config |-> NoConfig]
        ELSE IF ~Truthy(version)
        THEN [raised |-> "PipelineError", config |-> NoConfig]
        ELSE IF stages_raw.type # "list" \/ ~Truthy(stages_raw)
        THEN [raised |-> "PipelineError", config |-> NoConfig]
        ELSE IF \E i \in DOMAIN coerced : coerced[i].raised # ""
        THEN [raised |-> "PipelineError", config |-> NoConfig]
        ELSE [raised |-> "",
              config |-> [version |-> version,
                          stages |-> [i \in DOMAIN coerced |-> coerced[i].stage],
                          source_path |-> source_path]]

\* load_pipeline(path): `data` is what path.read_text and yaml.safe_load
\* make of the file, a value, or the OSError or YAMLError they raise.
load_pipeline(data, path) ==
    IF data.type \in {"OSError", "YAMLError"}
    THEN [raised |-> "PipelineError", config |-> NoConfig]
    ELSE _build_config(data, PathVal(path))

\* load_pipeline_from_string(text)
load_pipeline_from_string(data) ==
    IF data.type = "YAMLError"
    THEN [raised |-> "PipelineError", config |-> NoConfig]
    ELSE _build_config(data, PathVal(<<"<string>">>))

(***************************************************************************)
(* execute_pipeline, statement by statement.                               *)
(***************************************************************************)
\* context = {'pipeline_version': cfg.version}
new_context(c) == ("pipeline_version" :> c.version)

\* Mutant: the path of the document itself, str(cfg.source_path).
pipeline_dir_is_file(c) ==
    IF Truthy(c.source_path)
    THEN Str(StrOfPath(c.source_path.arg))
    ELSE NoneVal

\* pipeline_dir = str(cfg.source_path.parent) if cfg.source_path else None
pipeline_dir_of(c) ==
    IF Truthy(c.source_path)
    THEN Str(StrOfPath(Parent(c.source_path.arg)))
    ELSE NoneVal

\* Mutant: prev_output is not reset, a new run starts from the last run's output.
stale_prev_output == prev_output

\* prev_output = None
initial_prev_output == NoneVal

\* Mutant: the key is assigned whether or not the mapping holds it,
\* raw[key] = value.
set_always(m, k, v) == Put(m, k, v)

\* raw.setdefault(key, value)
setdefault(m, k, v) == IF k \in DOMAIN m THEN m ELSE Put(m, k, v)

\* Mutant: the returned value is not stored under `last`.
skip_last(ctx, out) == ctx

\* context['last'] = prev_output
store_last(ctx, out) == Put(ctx, "last", out)

\* One record of the ghost trace: impl.run was called on stage `idx`.
Call(idx, cls, prev, ctx, out) ==
    [stage |-> idx, cls |-> cls, prev |-> prev, ctx_in |-> ctx, raised |-> out.raised,
     ret |-> out.ret, wrote |-> out.wrote]

\* Mutant: an exception of impl.run is caught and logged, and the loop goes
\* on with the next stage (prev_output = None for it).
loop_body_swallow(st0, idx, dir, prev, ctx, file) ==
    LET st == [st0 EXCEPT !.raw = setdefault(st0.raw, "__pipeline_dir__", dir)]
        impl == create_stage_impl(st)
        out == run(impl.cls, st, prev, ctx, file)
    IN  IF impl.raised # ""
        THEN [stage |-> st, pc |-> "raised", error |-> impl.raised, context |-> ctx,
              prev_output |-> prev, pos |-> idx, calls |-> <<>>]
        ELSE [stage |-> st, pc |-> "loop", error |-> "",
              context |-> store_last(out.context, out.ret),
              prev_output |-> out.ret, pos |-> idx + 1,
              calls |-> <<Call(idx, impl.cls, prev, ctx, out)>>]

\* One iteration of `for st in cfg.stages` on the stage st0 at index idx:
\* the stage object, the locals and the control state after it.
loop_body(st0, idx, dir, prev, ctx, file) ==
    LET st == [st0 EXCEPT !.raw = setdefault(st0.raw, "__pipeline_dir__", dir)]
        impl == create_stage_impl(st)
        out == run(impl.cls, st, prev, ctx, file)
    IN  IF impl.raised # ""
        THEN [stage |-> st, pc |-> "raised", error |-> impl.raised, context |-> ctx,
              prev_output |-> prev, pos |-> idx, calls |-> <<>>]
        ELSE IF out.raised # ""
        THEN [stage |-> st, pc |-> "raised", error |-> out.raised, context |-> out.context,
              prev_output |-> prev, pos |-> idx, calls |-> <<Call(idx, impl.cls, prev, ctx, out)>>]
        ELSE [stage |-> st, pc |-> "loop", error |-> "",
              context |-> store_last(out.context, out.ret),
              prev_output |-> out.ret, pos |-> idx + 1, calls |-> <<Call(idx, impl.cls, prev, ctx, out)>>]

\* What the file read by stage st may hold: only a loader.kicad stage reads one.
FilesRead(st) ==
    IF st.uses.arg = LOADER_KICAD THEN FileOutcomes ELSE {NoneVal}

(***************************************************************************)
(* Actions.                                                                *)
(***************************************************************************)
\* execute_pipeline(cfg) is called (for the first time, or again after an
\* earlier call ended): lines 25-27.
Begin ==
    /\ pc \in {"idle", "returned", "raised"}
    /\ pc' = "loop"
    /\ context' = new_context(cfg)
    /\ pipeline_dir' = pipeline_dir_of(cfg)
    /\ prev_output' = initial_prev_output
    /\ pos' = 1
    /\ error' = ""
    /\ trace' = <<>>
    /\ UNCHANGED <<cfg, cfg0, reached, ran>>
    /\ UNCHANGED loadvars

\* One iteration of the for loop: lines 28-33.
Step ==
    /\ pc = "loop"
    /\ pos <= Len(cfg.stages)
    /\ \E file \in FilesRead(cfg.stages[pos]) :
         LET after == loop_body(cfg.stages[pos], pos, pipeline_dir, prev_output, context, file)
         IN  /\ cfg' = [cfg EXCEPT !.stages[pos] = after.stage]
             /\ pc' = after.pc
             /\ error' = after.error
             /\ context' = after.context
             /\ prev_output' = after.prev_output
             /\ pos' = after.pos
             /\ trace' = trace \o after.calls
             /\ reached' = reached \cup {pos}
             /\ ran' = (ran \/ after.pc = "raised")
    /\ UNCHANGED <<cfg0, pipeline_dir>>
    /\ UNCHANGED loadvars

\* return context: line 34.
Finish ==
    /\ pc = "loop"
    /\ pos > Len(cfg.stages)
    /\ pc' = "returned"
    /\ ran' = TRUE
    /\ UNCHANGED <<cfg, cfg0, context, pipeline_dir, prev_output, pos, error, trace, reached>>
    /\ UNCHANGED loadvars

Next == Begin \/ Step \/ Finish

(***************************************************************************)
(* The configurations executed.                                            *)
(***************************************************************************)
Entry(name, uses, rest) ==
    Dict(("name" :> Str(<<name>>)) @@ ("uses" :> Str(uses)) @@ rest)

\* Stage entries of a pipeline document: those of the repository's sample
\* pipeline (load, isolation_routing, generate_gcode), a loader without a
\* job, an entry carrying its own __pipeline_dir__ and an unregistered one.
CoreEntries ==
    { Entry("load", LOADER_KICAD,
            ("folder" :> Str(<<"fab">>)) @@ ("job" :> Str(<<"board.gbrjob">>))),
      Entry("load_nothing", LOADER_KICAD, EmptyMap),
      Entry("isolation_routing", LASER_ISOLATION,
            ("with" :> Dict(("tool_diameter" :> Float("0.80"))))),
      Entry("generate_gcode", OUTPUT_LASER_GCODE,
            ("with" :> Dict(("file" :> Str(<<"build", "out.nc">>))))),
      Entry("outline", LASER_OUTLINE,
            ("__pipeline_dir__" :> Str(<<"/", "elsewhere">>))),
      Entry("bogus", BOGUS_STAGE, EmptyMap) }

\* Entries of the remaining registered stage types.
OtherEntries ==
    { Entry("raster", LASER_RASTER, ("with" :> NoneVal)),
      Entry("mill", MILLING_ISOLATION,
            ("with" :> Dict(("tool_diameter" :> Float("0.40"))))),
      Entry("cutout", MILLING_BOARD_CUTOUT, ("with" :> Dict(EmptyMap))),
      Entry("cnc_gcode", OUTPUT_CNC_GCODE, EmptyMap) }

Version == Str(<<"0.2-min-inline">>)

Document(entries) ==
    Dict(("version" :> Version) @@ ("stages" :> List(entries)))

\* Where the document came from: a file, or an in-memory string.
PipelineFile == <<"/", "proj", "pipe.yaml">>

\* The configurations the loader builds from the documents of up to n
\* entries of entrySet, read from a file and from a string.
Loaded(entrySet, n) ==
    LET docs == UNION {[1..k -> entrySet] : k \in 1..n}
        fromFile == {load_pipeline(Document(d), PipelineFile) : d \in docs}
        fromString == {load_pipeline_from_string(Document(d)) : d \in docs}
    IN  {r.config : r \in {x \in fromFile \cup fromString : x.raised = ""}}

\* The same built directly, PipelineConfig(version, stages): no source_path.
Direct(configs) == {[c EXCEPT !.source_path = NoneVal] : c \in configs}

\* Pipelines of up to MaxStages core entries, and of up to MaxShort entries
\* of every kind.
Configs ==
    LET core == Loaded(CoreEntries, MaxStages)
    IN  core \cup Direct(core) \cup Loaded(CoreEntries \cup OtherEntries, MaxShort)

\* No loader has been called.
NotCalled == [call |-> "", raised |-> "", config |-> NoConfig]

NotInspected == [stage |-> 0, namespace |-> <<>>, action |-> <<>>]

NotParsed == [call |-> "", raised |-> "", job |-> NoneVal]

NotSelected == [asked |-> FALSE, copper_layers |-> NoneVal, outline_layer |-> NoneVal]

LoadersIdle ==
    /\ document = NoneVal
    /\ loaded = NotCalled
    /\ inspected = NotInspected
    /\ descriptor = NoneVal
    /\ parsed = NotParsed
    /\ selected = NotSelected

InitWith(configs) ==
    /\ LoadersIdle
    /\ cfg \in configs
    /\ cfg0 = cfg
    /\ pc = "idle"
    /\ context = EmptyMap
    /\ pipeline_dir = NoneVal
    /\ prev_output = NoneVal
    /\ pos = 1
    /\ error = ""
    /\ trace = <<>>
    /\ reached = {}
    /\ ran = FALSE

Init == InitWith(Configs)

Spec == Init /\ [][Next]_vars

(***************************************************************************)
(* The factory on identifiers near the registered ones: single-stage       *)
(* pipelines whose uses is a registered identifier, a prefix of one (its   *)
(* namespace among them), one with a single letter in upper case, one with *)
(* a character appended, or bogus.stage.                                   *)
(***************************************************************************)
Prefixes(id) == {SubSeq(id, 1, n) : n \in 1..Len(id)}

CaseVariants(id) == {[id EXCEPT ![n] = upper_char(id[n])] : n \in 1..Len(id)}

Extensions(id) == {id \o <<c>> : c \in {" ", "s", "."}}

UsesNearRegistered ==
    UNION {Prefixes(id) \cup CaseVariants(id) \cup Extensions(id) :
             id \in DOMAIN STAGE_CLASS_REGISTRY}
    \cup {BOGUS_STAGE, <<"L", "O", "A", "D", "E", "R", ".", "K", "I", "C", "A", "D">>}

RegistryEntries ==
    {Entry("stage", u, ("job" :> Str(<<"board.gbrjob">>))) : u \in UsesNearRegistered}

InitRegistry == InitWith(Loaded(RegistryEntries, 1))

SpecRegistry == InitRegistry /\ [][Next]_vars

(***************************************************************************)
(* The loader stage on the ways an entry can give job and folder:          *)
(* single-stage loader.kicad pipelines whose entry gives each of them, or  *)
(* not, directly and in its `with` mapping; `with` may also be absent,     *)
(* null or empty, and a job may be null, empty, relative or absolute.      *)
(***************************************************************************)
\* The mappings that hold `key` with one of `values`, or do not hold it.
Opt(key, values) == {EmptyMap} \cup {(key :> v) : v \in values}

WithMaps ==
    {j @@ f : j \in Opt("job", {Str(<<"with.gbrjob">>), NoneVal}),
              f \in Opt("folder", {Str(<<"withdir">>)})}

LoaderEntries ==
    {Entry("load", LOADER_KICAD, j @@ f @@ w) :
       j \in Opt("job", {Str(<<>>), Str(<<"raw.gbrjob">>), Str(<<"/", "abs", "raw.gbrjob">>)}),
       f \in Opt("folder", {Str(<<"rawdir">>)}),
       w \in Opt("with", {NoneVal} \cup {Dict(m) : m \in WithMaps})}

InitLoader == InitWith(Loaded(LoaderEntries, 1))

SpecLoader == InitLoader /\ [][Next]_vars

(***************************************************************************)
(* The configuration loader on documents, well-formed and defective.       *)
(***************************************************************************)
\* Values of `uses`: no ".", one, two, a leading and a trailing one.
UsesShapes ==
    { LASER_ISOLATION,
      <<"l", "o", "a", "d", "e", "r">>,
      <<"a", ".", "b", ".", "c">>,
      <<".", "x">>,
      <<"x", ".">>,
      <<".">> }

NameValues == {Str(<<"load">>), Str(<<>>), NoneVal, Float("1.0")}

UsesValues == {Str(u) : u \in UsesShapes} \cup {Str(<<>>), NoneVal, List(<<>>)}

WithValues ==
    { NoneVal, Dict(EmptyMap), Dict(("tool_diameter" :> Float("0.80"))),
      List(<<>>), List(<<Str(<<"fast">>)>>), Str(<<>>), Str(<<"fast">>),
      Bool(FALSE), Float("0.0") }

\* Keys the loader does not know.
UnknownKeys ==
    { EmptyMap,
      ("future_key" :> Str(<<"anything">>)),
      ("folder" :> List(<<>>)) @@ ("x-vendor" :> Dict(("deep" :> NoneVal))) }

\* Every shape of a single stage entry.
StageEntries ==
    {Dict(n @@ u @@ w @@ k) : n \in Opt("name", NameValues), u \in Opt("uses", UsesValues),
                              w \in Opt("with", WithValues), k \in UnknownKeys}
    \cup {NoneVal, Str(<<"load">>), List(<<>>), IntVal("7")}

\* A few entries to build longer stage lists from.
ListedEntries ==
    { Entry("load", LOADER_KICAD, ("job" :> Str(<<"board.gbrjob">>))),
      Entry("isolation_routing", LASER_ISOLATION,
            ("with" :> Dict(("tool_diameter" :> Float("0.80"))))),
      Entry("isolation_routing", LASER_ISOLATION, ("future_key" :> IntVal("7"))),
      Entry("cut", <<"a", ".", "b", ".", "c">>, ("with" :> NoneVal)),
      Entry("broken", LASER_OUTLINE, ("with" :> List(<<>>))),
      Dict(("uses" :> Str(LASER_OUTLINE))) }

VersionValues ==
    { Version, Str(<<>>), NoneVal, Float("1.0"), Float("0.0"), IntVal("2"), IntVal("0"),
      Bool(TRUE), Bool(FALSE), List(<<>>), List(<<IntVal("1")>>) }

StagesValues ==
    { NoneVal, List(<<>>), Str(<<"load">>), Dict(("name" :> Str(<<"load">>))),
      List(<<Entry("load", LOADER_KICAD, EmptyMap)>>) }

\* The documents handed to the loader.
Documents ==
    {Document(<<e>>) : e \in StageEntries}
    \cup {Document(d) : d \in UNION {[1..k -> ListedEntries] : k \in 1..MaxShort}}
    \cup {Dict(v @@ st @@ k) : v \in Opt("version", VersionValues),
                               st \in Opt("stages", StagesValues),
                               k \in {EmptyMap, ("description" :> Str(<<"board">>))}}
    \cup {NoneVal, List(<<>>), Str(<<"version">>), IntVal("1"),
          Failure("YAMLError"), Failure("OSError")}

ExecutionIdle ==
    /\ cfg = NoConfig
    /\ cfg0 = NoConfig
    /\ pc = "idle"
    /\ context = EmptyMap
    /\ pipeline_dir = NoneVal
    /\ prev_output = NoneVal
    /\ pos = 1
    /\ error = ""
    /\ trace = <<>>
    /\ reached = {}
    /\ ran = FALSE

execvars ==
    <<cfg, cfg0, pc, context, pipeline_dir, prev_output, pos, error, trace, reached, ran>>

InitDocuments ==
    /\ ExecutionIdle
    /\ document \in Documents
    /\ loaded = NotCalled
    /\ inspected = NotInspected
    /\ descriptor = NoneVal
    /\ parsed = NotParsed
    /\ selected = NotSelected

\* load_pipeline(path) on a file that holds the document.
LoadPipeline ==
    /\ loaded.call = ""
    /\ LET r == load_pipeline(document, PipelineFile)
       IN  loaded' = [call |-> "load_pipeline", raised |-> r.raised, config |-> r.config]
    /\ UNCHANGED <<document, inspected, descriptor, parsed, selected>>
    /\ UNCHANGED execvars

\* load_pipeline_from_string(text) on a text that holds the document.
LoadPipelineFromString ==
    /\ loaded.call = ""
    /\ document.type # "OSError"
    /\ LET r == load_pipeline_from_string(document)
       IN  loaded' = [call |-> "load_pipeline_from_string", raised |-> r.raised,
                      config |-> r.config]
    /\ UNCHANGED <<document, inspected, descriptor, parsed, selected>>
    /\ UNCHANGED execvars

\* stage.namespace and stage.action are read from a loaded stage.
Inspect ==
    /\ loaded.call # ""
    /\ loaded.raised = ""
    /\ \E i \in 1..Len(loaded.config.stages) :
         inspected' = [stage |-> i,
                       namespace |-> namespace(loaded.config.stages[i]),
                       action |-> action(loaded.config.stages[i])]
    /\ UNCHANGED <<document, loaded, descriptor, parsed, selected>>
    /\ UNCHANGED execvars

NextLoad == LoadPipeline \/ LoadPipelineFromString \/ Inspect

SpecLoad == InitDocuments /\ [][NextLoad]_vars

(***************************************************************************)
(* The job descriptor parser on descriptors, well-formed and defective.    *)
(***************************************************************************)
\* Tokens a FileFunction tag is made of: the words of the sample board in
\* several spellings, layer tokens well-formed and not, and empty ones.
TagTokens ==
    { W_Copper, upper(COPPER), <<" ">> \o COPPER \o <<" ">>,
      W_Profile, W_Soldermask,
      W_L1, <<"l", "2">>, <<"L", "0", "1", "2">>, <<"L", "0">>, <<"L", "x">>,
      W_Top, <<>> }

FunctionTags ==
    {CommaJoin(t) : t \in UNION {[1..k -> TagTokens] : k \in 1..MaxTokens}}
    \cup { <<" ">>, upper(PROFILE), CommaJoin(<<upper(PROFILE), W_Copper>>),
           CommaJoin(<<W_Copper, <<"L">>>>), CommaJoin(<<W_Copper, W_Bot, <<"t", "o", "p">>>>),
           CommaJoin(<<W_Soldermask, W_Top>>) }

\* Entries of FilesAttributes: those of the sample board, a second profile,
\* entries without Path or FileFunction or with an empty one, and entries
\* and values of another type.
FileEntries ==
    { F_Cu, B_Cu, Edge_Cuts, Margin,
      Dict(("FileFunction" :> Str(CommaJoin(<<W_Copper, W_L1, W_Top>>)))),
      Dict(("Path" :> Str(<<>>)) @@ ("FileFunction" :> Str(CommaJoin(<<W_Profile, W_NP>>)))),
      Dict(("Path" :> Str(<<"board-In1_Cu.gbr">>))),
      Dict(("Path" :> Str(<<"board-In2_Cu.gbr">>)) @@ ("FileFunction" :> Str(<<>>))),
      Dict(("Path" :> Str(<<"board-drl.gbr">>)) @@ ("FileFunction" :> IntVal("5"))),
      Str(<<"board-F_Cu.gbr">>) }

FilesValues ==
    UNION {{List(l) : l \in [1..k -> FileEntries]} : k \in 0..MaxLayers}
    \cup {List(<<Dict(("Path" :> Str(<<"layer.gbr">>)) @@ ("FileFunction" :> Str(tag)))>>) :
            tag \in FunctionTags}
    \cup {NoneVal, Dict(EmptyMap), Str(<<"board-F_Cu.gbr">>)}

SizeValues ==
    { Dict(("X" :> Float("100.2")) @@ ("Y" :> Float("107.2"))),
      Dict(EmptyMap),
      Dict(("X" :> Float("100.2"))),
      Dict(("Y" :> IntVal("107"))),
      Dict(("X" :> Str(<<"12.5">>)) @@ ("Y" :> Bool(TRUE))),
      Dict(("X" :> Str(<<"wide">>)) @@ ("Y" :> Float("107.2"))),
      Dict(("X" :> Float("100.2")) @@ ("Y" :> NoneVal)),
      Dict(("X" :> List(<<>>))),
      NoneVal, List(<<>>), Str(<<"100x107">>) }

GeneralValues ==
    {Dict(sz @@ th @@ ln) : sz \in Opt("Size", SizeValues),
                            th \in Opt("BoardThickness", {Float("1.6"), Str(<<"thick">>)}),
                            ln \in Opt("LayerNumber", {IntVal("2")})}
    \cup {NoneVal, List(<<>>), Str(<<"specs">>), Float("1.6")}

RulesValues ==
    { List(<<>>), List(<<BoardRules>>),
      List(<<BoardRules, Dict(("PadToPad" :> Float("0.5")))>>),
      List(<<Dict(EmptyMap), BoardRules>>),
      List(<<Str(<<"Outer">>), BoardRules>>),
      List(<<NoneVal>>),
      List(<<List(<<BoardRules>>)>>),
      BoardRules, NoneVal, Str(<<"rules">>) }

\* The descriptors handed to the parser, and what a read or a parse of the
\* file may raise.
Descriptors ==
    {Descriptor(g, r, ("FilesAttributes" :> List(<<F_Cu, B_Cu, Edge_Cuts>>))) :
       g \in Opt("GeneralSpecs", GeneralValues), r \in Opt("DesignRules", RulesValues)}
    \cup {Descriptor(g, ("DesignRules" :> List(<<BoardRules>>)), f) :
            g \in {("GeneralSpecs" :> BoardSpecs)}, f \in Opt("FilesAttributes", FilesValues)}
    \cup {Dict(EmptyMap), NoneVal, List(<<>>), Str(<<"GeneralSpecs">>), IntVal("1"),
          Failure("JSONDecodeError"), Failure("OSError")}

JobFile == <<"/", "proj", "fab", "board.gbrjob">>

InitDescriptors ==
    /\ ExecutionIdle
    /\ document = NoneVal
    /\ loaded = NotCalled
    /\ inspected = NotInspected
    /\ descriptor \in Descriptors
    /\ parsed = NotParsed
    /\ selected = NotSelected

\* load_kicad_job(path) on a file that holds the descriptor.
LoadKiCadJob ==
    /\ parsed.call = ""
    /\ LET r == load_kicad_job(JobFile, descriptor)
       IN  parsed' = [call |-> "load_kicad_job", raised |-> r.raised, job |-> r.job]
    /\ UNCHANGED <<document, loaded, inspected, descriptor, selected>>
    /\ UNCHANGED execvars

\* job.copper_layers() and job.outline_layer() on the job returned.
SelectLayers ==
    /\ parsed.call # ""
    /\ parsed.raised = ""
    /\ ~selected.asked
    /\ selected' = [asked |-> TRUE,
                    copper_layers |-> copper_layers(parsed.job),
                    outline_layer |-> outline_layer(parsed.job)]
    /\ UNCHANGED <<document, loaded, inspected, descriptor, parsed>>
    /\ UNCHANGED execvars

NextKiCad == LoadKiCadJob \/ SelectLayers

SpecKiCad == InitDescriptors /\ [][NextKiCad]_vars

(***************************************************************************)
(* Claims about execute_pipeline.                                          *)
(***************************************************************************)
NStages == Len(cfg.stages)

\* The context stage k is handed is the context stage k-1 was handed, with
\* the keys stage k-1 assigned and `last`: one mapping passes through them.
SameContext(k) ==
    LET before == trace[k - 1].ctx_in
        now == trace[k].ctx_in
        touched == trace[k - 1].wrote \cup {"last"}
    IN  /\ DOMAIN now = DOMAIN before \cup touched
        /\ \A key \in DOMAIN before \ touched : now[key] = before[key]

\* C1: the stages are invoked one time each in declaration order (the k-th
\* invocation of a run is of stage k, and a run that returns has invoked all
\* of them); the first is handed prev_output = None, every later one the
\* value the stage before it returned, and all are handed the same context.
C1_StagesInOrder ==
    /\ \A k \in 1..Len(trace) : trace[k].stage = k
    /\ Len(trace) <= NStages
    /\ pc = "returned" => Len(trace) = NStages
    /\ \A k \in 1..Len(trace) :
         IF k = 1
         THEN /\ trace[k].prev = NoneVal
              /\ trace[k].ctx_in = ("pipeline_version" :> cfg.version)
         ELSE /\ trace[k].prev = trace[k - 1].ret
              /\ trace[k - 1].raised = ""
              /\ SameContext(k)

\* C1 witness: a second run of a three-stage pipeline has returned, its
\* third stage handed the (not None) value the second returned.
C1_Witness ==
    /\ pc = "returned"
    /\ ran
    /\ Len(trace) = 3
    /\ trace[3].prev = trace[2].ret
    /\ trace[2].ret # NoneVal
    /\ trace[1].prev = NoneVal

\* The eight registered identifiers, and the artifact key of each.
RegisteredIdentifiers ==
    {LOADER_KICAD, LASER_ISOLATION, LASER_OUTLINE, LASER_RASTER, MILLING_ISOLATION,
     MILLING_BOARD_CUTOUT, OUTPUT_LASER_GCODE, OUTPUT_CNC_GCODE}

ArtifactKey(id) ==
    CASE id = LOADER_KICAD -> "job"
      [] id = LASER_ISOLATION -> "laser_isolation"
      [] id = LASER_OUTLINE -> "laser_outline"
      [] id = LASER_RASTER -> "laser_raster"
      [] id = MILLING_ISOLATION -> "milling_isolation"
      [] id = MILLING_BOARD_CUTOUT -> "milling_board_cutout"
      [] id = OUTPUT_LASER_GCODE -> "laser_gcode"
      [] id = OUTPUT_CNC_GCODE -> "cnc_gcode"

Registered(i) == cfg.stages[i].uses.arg \in RegisteredIdentifiers

Running == pc \in {"loop", "returned", "raised"}

\* The invocations of this run that returned a value.
Completed == {k \in 1..Len(trace) : trace[k].raised = ""}

Max(S) == CHOOSE x \in S : \A y \in S : y <= x

\* C2: throughout a run the context holds pipeline_version = cfg.version;
\* once a stage has completed, context['last'] is the value the most recently
\* completed stage returned (the final stage's on return), and before that
\* there is no `last`; no stage implementation assigns pipeline_version or last.
C2_VersionAndLast ==
    Running =>
      /\ "pipeline_version" \in DOMAIN context
      /\ context["pipeline_version"] = cfg.version
      /\ IF Completed = {}
         THEN "last" \notin DOMAIN context
         ELSE /\ "last" \in DOMAIN context
              /\ context["last"] = trace[Max(Completed)].ret
      /\ pc = "returned" => context["last"] = trace[NStages].ret
      /\ \A k \in 1..Len(trace) :
           /\ trace[k].wrote \cap {"pipeline_version", "last"} = {}
           /\ trace[k].ctx_in["pipeline_version"] = cfg.version

\* C2 witness: two stages have completed with different values, the loop is
\* still running and `last` is the second one's value.
C2_Witness ==
    /\ pc = "loop"
    /\ Len(trace) = 2
    /\ trace[1].ret # trace[2].ret
    /\ context["last"] = trace[2].ret
    /\ pos <= NStages

\* The value a completed stage of this run left under `key`: that of the
\* latest stage that assigned it.
Writers(key) == {k \in Completed : key \in trace[k].wrote}

\* C3: a stage whose uses is not registered is never run, nor is any stage
\* after it, and no run of such a pipeline returns; the run that reaches it
\* at position pos ends with PipelineError there, after the stages before it
\* ran once each in order, and the keys they assigned are still in the
\* context with the values they assigned.
C3_UnknownUsesAborts ==
    /\ \A k \in 1..Len(trace) : \A i \in 1..trace[k].stage : Registered(i)
    /\ pc = "returned" => \A i \in 1..NStages : Registered(i)
    /\ (pc = "raised" /\ ~Registered(pos)) =>
         /\ error = "PipelineError"
         /\ Len(trace) = pos - 1
         /\ \A k \in 1..(pos - 1) :
              /\ trace[k].stage = k
              /\ trace[k].raised = ""
              /\ \A key \in trace[k].wrote :
                   /\ key \in DOMAIN context
                   /\ context[key] = trace[Max(Writers(key))].ret
         /\ pos > 1 => context["last"] = trace[pos - 1].ret

\* C3 witness: the third stage is unregistered, the run ended there and the
\* job the first stage loaded is still in the context.
C3_Witness ==
    /\ pc = "raised"
    /\ pos = 3
    /\ ~Registered(3)
    /\ Len(trace) = 2
    /\ "job" \in DOMAIN context
    /\ "job" \in trace[1].wrote

\* A loader.kicad entry that gives no job anywhere.
NoJobGiven(st) ==
    /\ st.uses.arg = LOADER_KICAD
    /\ "job" \notin DOMAIN st.raw
    /\ "job" \notin DOMAIN st.with_args

\* C4: an invocation that raises is the last of its run: the run ends with
\* the exception the stage raised, the stage was invoked that one time, no
\* later stage was invoked, and the context is the one the failing stage
\* was handed (`last` and the keys of earlier stages as they were); the loop
\* never gets past a loader.kicad stage that is given no job.
C4_StageErrorPropagates ==
    /\ \A k \in 1..Len(trace) :
         trace[k].raised # "" =>
           /\ pc = "raised"
           /\ k = Len(trace)
           /\ error = trace[k].raised
           /\ context = trace[k].ctx_in
           /\ pos = trace[k].stage
    /\ \A k \in 1..Len(trace) : \A j \in 1..Len(trace) :
         trace[k].stage = trace[j].stage => k = j
    /\ (pc = "raised" /\ Registered(pos)) =>
         /\ Len(trace) = pos
         /\ trace[pos].raised = error
         /\ error # ""
    /\ \A i \in 1..NStages :
         (NoJobGiven(cfg0.stages[i]) /\ pc \in {"loop", "returned"}) => pos <= i

\* C4 witness: the job file of the second stage could not be parsed; the run
\* ended there with that error and the first stage's artifact is kept.
C4_Witness ==
    /\ pc = "raised"
    /\ error = "KiCadJobError"
    /\ pos = 2
    /\ Len(trace) = 2
    /\ trace[2].raised = "KiCadJobError"
    /\ "laser_isolation" \in DOMAIN context
    /\ context["last"] = trace[1].ret

\* The stages of type id, by position.
Occurrences(id) == {i \in 1..NStages : cfg.stages[i].uses.arg = id}

\* C5: when a run has returned, the context holds, for every registered type
\* that occurs in the pipeline, that type's artifact key with the value the
\* last stage of that type returned, holds no artifact key of a type that does
\* not occur, and `last` is the final stage's value; [loader.kicad,
\* laser.isolation, output.laser_gcode] gives job, laser_isolation,
\* laser_gcode and last = the gcode text.
C5_ArtifactKeys ==
    pc = "returned" =>
      /\ \A id \in RegisteredIdentifiers :
           IF Occurrences(id) = {}
           THEN ArtifactKey(id) \notin DOMAIN context
           ELSE /\ ArtifactKey(id) \in DOMAIN context
                /\ context[ArtifactKey(id)] = trace[Max(Occurrences(id))].ret
      /\ context["last"] = trace[NStages].ret
      /\ [i \in 1..NStages |-> cfg.stages[i].uses.arg]
            = <<LOADER_KICAD, LASER_ISOLATION, OUTPUT_LASER_GCODE>> =>
           /\ DOMAIN context
                = {"pipeline_version", "job", "laser_isolation", "laser_gcode", "last"}
           /\ context["last"] = context["laser_gcode"]
           /\ context["last"] = Str(<<"; laser gcode placeholder for ", "build", "out.nc">>)

\* C5 witness: the three-stage sample pipeline has returned.
C5_Witness ==
    /\ pc = "returned"
    /\ [i \in 1..NStages |-> cfg.stages[i].uses.arg]
          = <<LOADER_KICAD, LASER_ISOLATION, OUTPUT_LASER_GCODE>>
    /\ context["job"].type = "KiCadJob"
    /\ context["laser_isolation"].map["source"] = Str(<<"job">>)

\* The class the registry binds to each identifier.
ImplementationOf(id) ==
    CASE id = LOADER_KICAD -> "LoaderKiCadStage"
      [] id = LASER_ISOLATION -> "LaserIsolationStage"
      [] id = LASER_OUTLINE -> "LaserOutlineStage"
      [] id = LASER_RASTER -> "LaserRasterStage"
      [] id = MILLING_ISOLATION -> "MillingIsolationStage"
      [] id = MILLING_BOARD_CUTOUT -> "MillingBoardCutoutStage"
      [] id = OUTPUT_LASER_GCODE -> "OutputLaserGcodeStage"
      [] id = OUTPUT_CNC_GCODE -> "OutputCncGcodeStage"

\* The stages this run's loop has handled.
Handled == {i \in 1..NStages : Running /\ (i < pos \/ (i = pos /\ pc = "raised"))}

\* C6: create_stage_impl succeeds exactly on the eight registered
\* identifiers, compared whole and case-sensitively, and gives the class
\* bound to the identifier (the stage is then invoked as that class); on any
\* other uses (a prefix, a namespace alone, a case variant, an extension) it
\* raises PipelineError and nothing is invoked.
C6_ExactLookup ==
    \A i \in Handled :
      LET u == cfg.stages[i].uses.arg
      IN  IF u \in RegisteredIdentifiers
          THEN /\ Len(trace) >= i
               /\ trace[i].cls = ImplementationOf(u)
          ELSE /\ pc = "raised"
               /\ error = "PipelineError"
               /\ Len(trace) = i - 1

\* C6 witness: the uses "Laser.isolation" was refused.
C6_Witness ==
    /\ pc = "raised"
    /\ error = "PipelineError"
    /\ trace = <<>>
    /\ cfg.stages[1].uses.arg # LASER_ISOLATION
    /\ lower(cfg.stages[1].uses.arg) = LASER_ISOLATION

(***************************************************************************)
(* Claims about LoaderKiCadStage.                                          *)
(***************************************************************************)
\* The mapping under `with` in m (empty when there is none).
NestedWith(m) ==
    IF "with" \in DOMAIN m /\ m["with"].type = "dict" THEN m["with"].map ELSE EmptyMap

\* The layers of a stage, highest priority first: the with-config, the
\* `with` mapping inside raw, raw itself.
Layers(st) == <<st.with_args, NestedWith(st.raw), st.raw>>

Provides(layer) == Truthy(Get(layer, "job"))

\* No layer gives a job.
NoJobAnywhere(st) == \A n \in 1..3 : ~Provides(Layers(st)[n])

\* C7 (the claim as stated): a loader.kicad stage whose entry gives no job,
\* in the with-config, in a `with` mapping nested in raw or in raw itself,
\* ends the run with PipelineError, and no `job` key is in the context.
C7_NoJobIsPipelineError ==
    \A i \in Handled :
      (cfg0.stages[i].uses.arg = LOADER_KICAD /\ NoJobAnywhere(cfg0.stages[i])) =>
        /\ pc = "raised"
        /\ error = "PipelineError"
        /\ "job" \notin DOMAIN context

\* The job path the single winning layer gives: job and folder of the first
\* layer that provides a job, re-based on __pipeline_dir__ when relative.
WinningLayer(st) ==
    Layers(st)[CHOOSE n \in 1..3 :
                 Provides(Layers(st)[n]) /\ \A m \in 1..(n - 1) : ~Provides(Layers(st)[m])]

SingleLayerPath(st) ==
    LET layer == WinningLayer(st)
        folder == Get(layer, "folder")
        joined == IF Truthy(folder)
                  THEN JoinPath(PathOf(folder.arg), PathOf(layer["job"].arg))
                  ELSE PathOf(layer["job"].arg)
        dir == Get(st.raw, "__pipeline_dir__")
    IN  IF ~is_absolute(joined) /\ Truthy(dir)
        THEN resolve(JoinPath(PathOf(dir.arg), joined))
        ELSE joined

\* C8 (the claim as stated): the job a loader.kicad stage loads is the one
\* named by the job and the folder of the single highest-priority layer that
\* provides a job; a folder of another layer is never joined to it.
C8_SingleLayer ==
    \A k \in Completed :
      (/\ trace[k].cls = "LoaderKiCadStage"
       /\ \E n \in 1..3 : Provides(Layers(cfg.stages[trace[k].stage])[n])) =>
        trace[k].ret.arg = SingleLayerPath(cfg.stages[trace[k].stage])

(***************************************************************************)
(* Claims about what execute_pipeline does to the configuration.           *)
(***************************************************************************)
DirKey == "__pipeline_dir__"

\* The configuration is the loaded one but for the key __pipeline_dir__
\* added to the raw mapping of stages a run has reached.
OnlyDirAdded ==
    /\ cfg.version = cfg0.version
    /\ cfg.source_path = cfg0.source_path
    /\ Len(cfg.stages) = Len(cfg0.stages)
    /\ \A i \in 1..Len(cfg0.stages) :
         LET now == cfg.stages[i]
             was == cfg0.stages[i]
         IN  /\ now.name = was.name
             /\ now.uses = was.uses
             /\ now.with_args = was.with_args
             /\ \A key \in DOMAIN was.raw :
                  key \in DOMAIN now.raw /\ now.raw[key] = was.raw[key]
             /\ DOMAIN now.raw \subseteq DOMAIN was.raw \cup {DirKey}
             /\ i \in reached => DirKey \in DOMAIN now.raw
             /\ i \notin reached => now.raw = was.raw

\* C9 (the claim as stated): the configuration changes only by the added
\* key, and once an execution has ended a further execution changes nothing
\* in the configuration.
C9_SecondRunChangesNothing ==
    [][OnlyDirAdded /\ OnlyDirAdded' /\ (ran => cfg' = cfg)]_vars

\* C9 (amended): the configuration changes only by the key __pipeline_dir__
\* added to the raw mapping of stages a run reaches; an execution changes
\* nothing in a stage an earlier step or execution has reached, so once every
\* stage has been reached (a run has returned) nothing changes at all.
C9_ReachedStagesFrozen ==
    [][/\ OnlyDirAdded
       /\ OnlyDirAdded'
       /\ \A i \in reached : cfg'.stages[i] = cfg.stages[i]
       /\ reached = 1..NStages => cfg' = cfg]_vars

\* C9 witness: a second execution is past its first stage, whose raw got the
\* key in the first execution.
C9_Witness ==
    /\ ran
    /\ pc = "loop"
    /\ pos > 1
    /\ DirKey \in DOMAIN cfg.stages[1].raw
    /\ DirKey \notin DOMAIN cfg0.stages[1].raw
    /\ cfg.stages[1].raw[DirKey] = pipeline_dir

\* The configuration was loaded from a file.
FromFile ==
    /\ cfg.source_path.type = "Path"
    /\ cfg.source_path.arg # <<"<string>">>

\* The directory of the document.
SourceDir == Str(StrOfPath(Parent(cfg.source_path.arg)))

\* C10 (the claim as stated): when execute_pipeline has returned for a
\* configuration loaded from a file, raw['__pipeline_dir__'] of every stage is
\* the directory of source_path, whatever keys the entry carried.
C10_DirIsSourceDir ==
    (pc = "returned" /\ FromFile) =>
      \A i \in 1..NStages :
        /\ DirKey \in DOMAIN cfg.stages[i].raw
        /\ cfg.stages[i].raw[DirKey] = SourceDir

\* C10 (amended): when execute_pipeline has returned for a configuration
\* loaded from a file, raw['__pipeline_dir__'] of every stage whose entry did
\* not carry that key is the directory of source_path, whatever earlier run
\* touched the stage; an entry that carried the key keeps its own value.
C10_DirUnlessGiven ==
    (pc = "returned" /\ FromFile) =>
      \A i \in 1..NStages :
        /\ DirKey \in DOMAIN cfg.stages[i].raw
        /\ cfg.stages[i].raw[DirKey] =
             IF DirKey \in DOMAIN cfg0.stages[i].raw
             THEN cfg0.stages[i].raw[DirKey]
             ELSE SourceDir

\* C10 witness: a run has returned for a two-stage pipeline from a file, one
\* entry carrying its own __pipeline_dir__ and one not.
C10_Witness ==
    /\ pc = "returned"
    /\ FromFile
    /\ NStages = 2
    /\ DirKey \in DOMAIN cfg0.stages[1].raw
    /\ cfg.stages[1].raw[DirKey] = Str(<<"/", "elsewhere">>)
    /\ DirKey \notin DOMAIN cfg0.stages[2].raw
    /\ cfg.stages[2].raw[DirKey] = Str(<<"/", "proj">>)

(***************************************************************************)
(* Claims about configurations loaded from an in-memory string.            *)
(***************************************************************************)
\* The configuration was loaded by load_pipeline_from_string.
FromString == cfg.source_path = PathVal(<<"<string>">>)

\* C11 (the claim as stated): executing a configuration loaded from an
\* in-memory string puts None, not a directory, under __pipeline_dir__ in the
\* raw of every stage it reaches (whose entry did not carry the key), and the
\* relative job path of a loader.kicad stage is loaded as it is, not re-based
\* on a directory.
C11_StringInjectsNone ==
    FromString =>
      /\ \A i \in reached :
           DirKey \notin DOMAIN cfg0.stages[i].raw =>
             cfg.stages[i].raw[DirKey] = NoneVal
      /\ \A k \in Completed :
           (/\ trace[k].cls = "LoaderKiCadStage"
            /\ DirKey \notin DOMAIN cfg0.stages[trace[k].stage].raw) =>
             ~is_absolute(trace[k].ret.arg)

(***************************************************************************)
(* Claims about the configuration loader.                                  *)
(***************************************************************************)
\* A load has been attempted / has returned a configuration.
LoadCalled == loaded.call # ""

LoadReturned == LoadCalled /\ loaded.raised = ""

\* The entries under `stages` of a document that has a list there.
EntriesOf(doc) ==
    IF doc.type = "dict" /\ "stages" \in DOMAIN doc.map /\ doc.map["stages"].type = "list"
    THEN doc.map["stages"].arg
    ELSE <<>>

\* `key` of the entry is absent, or is not a non-empty string.
NoStringAt(entry, key) ==
    \/ key \notin DOMAIN entry.map
    \/ entry.map[key].type # "str"
    \/ entry.map[key].arg = <<>>

\* The defects of a document other than those of `with`.
StructuralDefect(doc) ==
    \/ doc.type # "dict"
    \/ "version" \notin DOMAIN doc.map
    \/ doc.map["version"] \in {Str(<<>>), NoneVal}
    \/ "stages" \notin DOMAIN doc.map
    \/ doc.map["stages"].type # "list"
    \/ doc.map["stages"].arg = <<>>
    \/ \E i \in 1..Len(EntriesOf(doc)) :
         LET entry == EntriesOf(doc)[i]
         IN  \/ entry.type # "dict"
             \/ NoStringAt(entry, "name")
             \/ NoStringAt(entry, "uses")

\* Some stage entry has a `with` whose value is not a mapping.  A `with`
\* that is null (`with:` with nothing after it) counts as no `with`, as in
\* obj.get("with"), which does not tell the two apart.
WithNotMapping(doc) ==
    \E i \in 1..Len(EntriesOf(doc)) :
      LET entry == EntriesOf(doc)[i]
      IN  /\ entry.type = "dict"
          /\ "with" \in DOMAIN entry.map
          /\ entry.map["with"].type \notin {"dict", "None"}

LoadFailed == loaded.raised = "PipelineError" /\ loaded.config = NoConfig

\* C12: loading fails with PipelineError, and gives no configuration, for a
\* document whose root is not a mapping, whose version is missing or empty,
\* whose stages is absent, not a sequence or empty, that has a stage entry
\* that is not a mapping or lacks a non-empty string name or uses, or that
\* has a stage whose `with` is given but is not a mapping.
C12_DefectsFail ==
    (LoadCalled /\ (StructuralDefect(document) \/ WithNotMapping(document))) => LoadFailed

\* C12 witness: a load has failed on a document whose only defect is a stage
\* with a list under `with`.
C12_Witness ==
    /\ LoadCalled
    /\ LoadFailed
    /\ ~StructuralDefect(document)
    /\ Len(EntriesOf(document)) = 2
    /\ Get(EntriesOf(document)[2].map, "with") = List(<<>>)
    /\ "with" \notin DOMAIN EntriesOf(document)[1].map

\* C13 (the claim as stated): a configuration a load returns has at least one
\* stage and a version that is a non-empty string, also when the document
\* writes the version as a number.
C13_VersionIsString ==
    LoadReturned =>
      /\ Len(loaded.config.stages) >= 1
      /\ loaded.config.version.type = "str"
      /\ loaded.config.version.arg # <<>>

\* The keys of a stage entry the loader knows.
KnownKeys == {"name", "uses", "with"}

\* The document without the stage-entry keys the loader does not know.
WithoutUnknownKeys(doc) ==
    IF doc.type = "dict" /\ "stages" \in DOMAIN doc.map /\ doc.map["stages"].type = "list"
    THEN [doc EXCEPT !.map["stages"].arg =
            [i \in 1..Len(EntriesOf(doc)) |->
               LET entry == EntriesOf(doc)[i]
               IN  IF entry.type = "dict"
                   THEN Dict([key \in DOMAIN entry.map \cap KnownKeys |-> entry.map[key]])
                   ELSE entry]]
    ELSE doc

\* C14: the stages of a loaded configuration are the entries of the document,
\* one to one and in order: stage i has entry i's name and uses, its
\* with-config is entry i's `with` mapping (empty when there is none), its raw
\* holds exactly the keys of entry i with their values; and a document loads
\* if and only if it loads without its unknown stage keys.
C14_StagesMirrorEntries ==
    /\ LoadReturned =>
         /\ Len(loaded.config.stages) = Len(EntriesOf(document))
         /\ \A i \in 1..Len(EntriesOf(document)) :
              LET entry == EntriesOf(document)[i]
                  stage == loaded.config.stages[i]
              IN  /\ stage.name = entry.map["name"]
                  /\ stage.uses = entry.map["uses"]
                  /\ stage.with_args = NestedWith(entry.map)
                  /\ DOMAIN stage.raw = DOMAIN entry.map
                  /\ \A key \in DOMAIN entry.map : stage.raw[key] = entry.map[key]
    /\ (LoadCalled /\ document.type = "dict") =>
         loaded.raised = load_pipeline_from_string(WithoutUnknownKeys(document)).raised

\* C14 witness: a two-stage document has been loaded, its second entry with
\* a key the loader does not know.
C14_Witness ==
    /\ LoadReturned
    /\ Len(loaded.config.stages) = 2
    /\ loaded.config.stages[1].name = Str(<<"load">>)
    /\ loaded.config.stages[2].name = Str(<<"isolation_routing">>)
    /\ "future_key" \in DOMAIN loaded.config.stages[2].raw
    /\ loaded.config.stages[2].with_args = EmptyMap
    /\ "with" \notin DOMAIN loaded.config.stages[1].raw

\* C15: namespace is the part of uses before its first "." and action the
\* part after it, so namespace + "." + action = uses and namespace holds no
\* "."; without a "." in uses, namespace is uses and action is empty.
C15_NamespaceAction ==
    inspected.stage # 0 =>
      LET uses == loaded.config.stages[inspected.stage].uses.arg
      IN  IF \E n \in 1..Len(uses) : uses[n] = "."
          THEN /\ inspected.namespace \o <<".">> \o inspected.action = uses
               /\ \A n \in 1..Len(inspected.namespace) : inspected.namespace[n] # "."
          ELSE /\ inspected.namespace = uses
               /\ inspected.action = <<>>

\* C15 witness: the stage with uses a.b.c has been read: namespace a,
\* action b.c.
C15_Witness ==
    /\ inspected.stage # 0
    /\ loaded.config.stages[inspected.stage].uses.arg = <<"a", ".", "b", ".", "c">>
    /\ inspected.namespace = <<"a">>
    /\ inspected.action = <<"b", ".", "c">>

(***************************************************************************)
(* Claims about the job descriptor parser.                                 *)
(***************************************************************************)
ParseCalled == parsed.call # ""

ParseReturned == ParseCalled /\ parsed.raised = ""

ParseFailed == parsed.raised = "KiCadJobError" /\ parsed.job = NoneVal

\* The file does not hold syntactically valid JSON.
NotJson(file) == file.type = "JSONDecodeError"

IsNumber(v) ==
    \/ v.type \in {"float", "int"}
    \/ v.type = "str" /\ Len(v.arg) = 1 /\ v.arg[1] \in NumericTexts

\* `key` of the mapping, when there, is a number.
NumberIfPresent(m, key) == key \in DOMAIN m => IsNumber(m[key])

\* GeneralSpecs is there and is a mapping whose Size, when there, is a
\* mapping whose X and Y, when there, are numbers.
WellFormedGeneralSpecs(file) ==
    /\ file.type = "dict"
    /\ "GeneralSpecs" \in DOMAIN file.map
    /\ file.map["GeneralSpecs"].type = "dict"
    /\ LET general == file.map["GeneralSpecs"].map
       IN  "Size" \in DOMAIN general =>
             /\ general["Size"].type = "dict"
             /\ NumberIfPresent(general["Size"].map, "X")
             /\ NumberIfPresent(general["Size"].map, "Y")

\* C16 (the claim as stated): load_kicad_job fails with KiCadJobError, and
\* returns no job, whenever the file is not valid JSON or its GeneralSpecs is
\* missing or malformed.
C16_BadGeneralSpecsFails ==
    (ParseCalled /\ descriptor.type # "OSError"
       /\ (NotJson(descriptor) \/ ~WellFormedGeneralSpecs(descriptor))) =>
      ParseFailed

\* The value of a field of the job returned.
Field(name) == parsed.job.map[name]

\* C17 (the claim as stated): a JSON object whose GeneralSpecs is well-formed
\* is parsed, and what it leaves out takes its default: the board sizes are
\* 0.0, never absent, BoardThickness and LayerNumber stay absent, the
\* design rules are an empty mapping and the layers an empty list.
C17_DefaultsNeverFail ==
    (ParseCalled /\ WellFormedGeneralSpecs(descriptor)) =>
      /\ parsed.raised = ""
      /\ LET general == descriptor.map["GeneralSpecs"].map
             size == GetD(general, "Size", Dict(EmptyMap)).map
         IN  /\ Field("board_size_x").type = "float"
             /\ Field("board_size_y").type = "float"
             /\ "X" \notin DOMAIN size => Field("board_size_x") = Float("0.0")
             /\ "Y" \notin DOMAIN size => Field("board_size_y") = Float("0.0")
             /\ "BoardThickness" \notin DOMAIN general => Field("board_thickness") = NoneVal
             /\ "LayerNumber" \notin DOMAIN general => Field("layer_number") = NoneVal
      /\ "DesignRules" \notin DOMAIN descriptor.map => Field("design_rules") = Dict(EmptyMap)
      /\ "FilesAttributes" \notin DOMAIN descriptor.map => Field("layers") = List(<<>>)

\* The entries of FilesAttributes of a descriptor that has a list there.
FilesOf(file) ==
    IF file.type = "dict" /\ "FilesAttributes" \in DOMAIN file.map
       /\ file.map["FilesAttributes"].type = "list"
    THEN file.map["FilesAttributes"].arg
    ELSE <<>>

\* The entry has a non-empty Path and a non-empty FileFunction string.
Admitted(entry) ==
    /\ entry.type = "dict"
    /\ "Path" \in DOMAIN entry.map
    /\ entry.map["Path"] \notin {Str(<<>>), NoneVal}
    /\ "FileFunction" \in DOMAIN entry.map
    /\ entry.map["FileFunction"].type = "str"
    /\ entry.map["FileFunction"].arg # <<>>

AdmittedOf(file) == SelectSeq(FilesOf(file), Admitted)

\* C18 (the claim as stated): for a descriptor with a list of file entries
\* the parser returns a job whose layers are the entries that have a
\* non-empty Path and a non-empty FileFunction string, in their order; every
\* other entry is dropped without an exception.
C18_LayersAreAdmittedEntries ==
    (/\ ParseCalled
     /\ WellFormedGeneralSpecs(descriptor)
     /\ "FilesAttributes" \in DOMAIN descriptor.map
     /\ descriptor.map["FilesAttributes"].type = "list") =>
      /\ parsed.raised = ""
      /\ Len(Field("layers").arg) = Len(AdmittedOf(descriptor))
      /\ \A k \in 1..Len(AdmittedOf(descriptor)) :
           /\ Field("layers").arg[k].map["path"] = AdmittedOf(descriptor)[k].map["Path"]
           /\ Field("layers").arg[k].map["polarity"]
                = Get(AdmittedOf(descriptor)[k].map, "FilePolarity")

\* The list under DesignRules (empty when there is none, or no list).
RulesOf(file) ==
    IF "DesignRules" \in DOMAIN file.map /\ file.map["DesignRules"].type = "list"
    THEN file.map["DesignRules"].arg
    ELSE <<>>

IsMapping(v) == v.type = "dict"

\* C19 (the claim as stated): design_rules is the first mapping among the
\* entries of the DesignRules list, and the empty mapping when the list is
\* empty or absent or holds no mapping.
C19_FirstMappingOfList ==
    ParseReturned =>
      Field("design_rules") =
        IF SelectSeq(RulesOf(descriptor), IsMapping) # <<>>
        THEN Head(SelectSeq(RulesOf(descriptor), IsMapping))
        ELSE Dict(EmptyMap)

\* C19 (amended): design_rules is the first entry of the DesignRules list
\* when that entry is a mapping (later rule sets are ignored); it is the
\* empty mapping when the list is empty or absent, or is no list, or when
\* its first entry is not a mapping, whatever follows it.
C19_FirstEntryIfMapping ==
    ParseReturned =>
      Field("design_rules") =
        IF RulesOf(descriptor) # <<>> /\ IsMapping(Head(RulesOf(descriptor)))
        THEN Head(RulesOf(descriptor))
        ELSE Dict(EmptyMap)

\* C19 witness: a descriptor with two rule sets has been parsed, and the job
\* holds the first.
C19_Witness ==
    /\ ParseReturned
    /\ Len(RulesOf(descriptor)) = 2
    /\ IsMapping(RulesOf(descriptor)[2])
    /\ RulesOf(descriptor)[1] = BoardRules
    /\ RulesOf(descriptor)[2] # BoardRules
    /\ Field("design_rules") = BoardRules

\* The first token of a tag: the first of its comma-separated pieces that
\* is not empty once the white space around it is removed, in lower case
\* (the empty text when there is none).
RECURSIVE FirstToken(_)
FirstToken(pieces) ==
    IF pieces = <<>> THEN <<>>
    ELSE IF strip(Head(pieces)) # <<>> THEN lower(strip(Head(pieces)))
    ELSE FirstToken(Tail(pieces))

TagOf(entry) == FirstToken(split(entry.map["FileFunction"].arg, ","))

\* C20: on every layer of a parsed job, is_copper says that the first token
\* of the entry's tag is "copper", whatever its case, and is_profile that it
\* is "profile"; a tag with another first token, or with no token, has both
\* flags false, and no layer has both true.
C20_FlagsFromFirstToken ==
    (ParseReturned /\ Len(Field("layers").arg) = Len(AdmittedOf(descriptor))) =>
      \A k \in 1..Len(AdmittedOf(descriptor)) :
        LET layer == Field("layers").arg[k].map
            first == TagOf(AdmittedOf(descriptor)[k])
        IN  /\ layer["is_copper"] = Bool(first = COPPER)
            /\ layer["is_profile"] = Bool(first = PROFILE)
            /\ ~(layer["is_copper"] = Bool(TRUE) /\ layer["is_profile"] = Bool(TRUE))

\* C20 witness: a job has been parsed whose only layer has the tag
\* ",COPPER,Profile": its first token is COPPER after an empty piece, and
\* the layer is a copper layer and no profile.
C20_Witness ==
    /\ ParseReturned
    /\ Len(FilesOf(descriptor)) = 1
    /\ Len(Field("layers").arg) = 1
    /\ FilesOf(descriptor)[1].map["FileFunction"].arg
         = CommaJoin(<<<<>>, upper(COPPER), W_Profile>>)
    /\ Field("layers").arg[1].map["is_copper"] = Bool(TRUE)
    /\ Field("layers").arg[1].map["is_profile"] = Bool(FALSE)

\* The token is L or l followed by digits, and nothing else.
WellFormedL(p) ==
    /\ Len(p) >= 2
    /\ p[1] \in {"L", "l"}
    /\ \A n \in 2..Len(p) : \E d \in DOMAIN Digits : Digits[d] = p[n]

\* The tokens of the tag of an entry.
TokensOf(entry) == parts_of(entry.map["FileFunction"].arg)

\* C21 (the claim as stated): on every layer of a parsed job, layer_index is
\* set only when is_copper is true, and is then a positive integer, the number
\* written by the digits of an L<digits> token of the tag; a copper tag without
\* such a token leaves layer_index absent.
C21_IndexPositiveOnCopper ==
    (ParseReturned /\ Len(Field("layers").arg) = Len(AdmittedOf(descriptor))) =>
      \A k \in 1..Len(AdmittedOf(descriptor)) :
        LET layer == Field("layers").arg[k].map
            tokens == TokensOf(AdmittedOf(descriptor)[k])
        IN  /\ layer["layer_index"] # NoneVal =>
                 /\ layer["is_copper"] = Bool(TRUE)
                 /\ layer["layer_index"].type = "int"
                 /\ layer["layer_index"].arg # <<"0">>
                 /\ \E n \in 1..Len(tokens) :
                      /\ WellFormedL(tokens[n])
                      /\ layer["layer_index"] = int(Tail(tokens[n]))
            /\ (/\ layer["is_copper"] = Bool(TRUE)
                /\ \A n \in 1..Len(tokens) : ~WellFormedL(tokens[n])) =>
                 layer["layer_index"] = NoneVal

\* The copper layers of a list of layers, in its order.
RECURSIVE CopperOnly(_)
CopperOnly(layers) ==
    IF layers = <<>> THEN <<>>
    ELSE (IF Head(layers).map["is_copper"] = Bool(TRUE) THEN <<Head(layers)>> ELSE <<>>)
         \o CopperOnly(Tail(layers))

\* The positions of the profile layers of a list of layers.
Profiles(layers) ==
    {n \in 1..Len(layers) : layers[n].map["is_profile"] = Bool(TRUE)}

\* The descriptor lists the three files of the sample board, tagged
\* Copper,L1,Top and Copper,L2,Bot and Profile,NP.
SampleFiles == FilesOf(descriptor) = <<F_Cu, B_Cu, Edge_Cuts>>

\* C22: copper_layers() returns exactly the layers with is_copper = true, in
\* the order of the job, and outline_layer() returns the first layer with
\* is_profile = true, or None when the job has none; on the three files of
\* the sample board that is two copper layers with the indexes 1 and 2 and
\* the profile file as the outline.
C22_CopperAndOutline ==
    selected.asked =>
      LET layers == Field("layers").arg
          copper == selected.copper_layers
          outline == selected.outline_layer
      IN  /\ copper = List(CopperOnly(layers))
          /\ Profiles(layers) = {} => outline = NoneVal
          /\ \A n \in Profiles(layers) :
               (\A m \in Profiles(layers) : n <= m) => outline = layers[n]
          /\ SampleFiles =>
               /\ Len(copper.arg) = 2
               /\ {copper.arg[n].map["layer_index"] : n \in 1..2}
                    = {IntVal("1"), IntVal("2")}
               /\ outline.type = "LayerFile"
               /\ outline.map["path"] = Edge_Cuts.map["Path"]
               /\ outline.map["is_profile"] = Bool(TRUE)

\* Both selections were made on a job whose first layer is a profile,
\* followed by a copper layer and a second, different profile layer.
C22_Witness ==
    /\ selected.asked
    /\ FilesOf(descriptor) = <<Margin, F_Cu, Edge_Cuts>>
    /\ Len(selected.copper_layers.arg) = 1
    /\ selected.copper_layers.arg[1] = Field("layers").arg[2]
    /\ selected.outline_layer = Field("layers").arg[1]

\* The invocations of a stage class of this run that returned a value.
CompletedOf(cls) == {k \in Completed : trace[k].cls = cls}

\* A loader.kicad stage completed before invocation k.
JobLoadedBefore(k) == \E j \in CompletedOf("LoaderKiCadStage") : j < k

\* C23: the result of a laser.isolation stage has source = 'job' if and only
\* if a loader.kicad stage completed earlier in the run, which is when the
\* context it is handed has a job, and source = None otherwise; the result
\* stored under laser_isolation stays the one the latest laser.isolation
\* stage returned, whatever a later stage loads.
C23_SourceFixedAtRun ==
    Running =>
      /\ \A k \in CompletedOf("LaserIsolationStage") :
           /\ JobLoadedBefore(k) <=> Truthy(Get(trace[k].ctx_in, "job"))
           /\ trace[k].ret.map["source"]
                = IF JobLoadedBefore(k) THEN Str(<<"job">>) ELSE NoneVal
      /\ CompletedOf("LaserIsolationStage") # {} =>
           /\ "laser_isolation" \in DOMAIN context
           /\ context["laser_isolation"]
                = trace[Max(CompletedOf("LaserIsolationStage"))].ret

\* A run returned in which laser.isolation ran before loader.kicad: the
\* context has the job, and the stored result still has source = None.
C23_Witness ==
    /\ pc = "returned"
    /\ \E k \in CompletedOf("LaserIsolationStage") :
         \E j \in CompletedOf("LoaderKiCadStage") :
           /\ k < j
           /\ ~JobLoadedBefore(k)
    /\ Truthy(Get(context, "job"))
    /\ context["laser_isolation"].map["source"] = NoneVal

====
